---------------------------- MODULE Spec2Model ----------------------------
(***************************************************************************)
(* PerformanceTimer (performance_timer.py): a timer session that measures  *)
(* one operation at a time, keeps the finished measurements in memory and  *)
(* appends each of them to a CSV log; the history can be exported to a     *)
(* second CSV file.                                                        *)
(*                                                                         *)
(* Time is counted in hundredths of a second.  A file is a sequence of     *)
(* rows, a row a sequence of five strings.  Every method call is one       *)
(* atomic step: the class is synchronous and single-threaded.  The file    *)
(* system of this module never fails an open or a write.                   *)
(***************************************************************************)
EXTENDS Integers, Sequences, FiniteSets, TLC

\* ------------------------------------------------------------------ bounds

\* The clock reads FirstClock hundredths of a second when the program starts
\* and the program is followed until it reads MaxClock.
FirstClock == 4
MaxClock == 6

\* Number of stop() calls, over all sessions, that complete a measurement.
MaxStops == 2

\* Number of export_records() calls, over all sessions.
MaxExports == 2

\* Number of stop() calls that fail and whose records are in the history.
MaxFaults == 1

\* The dicts of its own a caller puts into a list it was given.
MaxOwn == 1

\* The largest raw clock reading rendered on its own, in hundredths.
MaxRaw == 104

\* ------------------------------------------------------------ value domains

\* Python's None in an Optional[float] / Optional[int] attribute or result.
None == -1

\* In place of a return value: the call raised the OSError of its file
\* operation instead of returning.
Raised == -2

\* Python's None in the Optional[str] attribute `operation`.
NoneStr == "<None>"

\* The PerformanceTimer objects a program can make; Callers are the ones
\* whose every method is called (Spec), the others are only constructed,
\* started and stopped (SpecShared).
Sessions == {"t1", "t2"}
Callers == {"t1"}

\* The csv_filename arguments given to the constructor.
LogPaths == {"log.csv"}

\* export_records() called without a filename (None, or the falsy "").
NoFilename == ""

\* The filename arguments given to export_records().
ExportArgs == {NoFilename, "log.csv"}

\* The (operation, iteration) arguments given to start().
StartArgs == {<<"load", None>>, <<"proc", 1>>}

\* The header row written by _create_csv_header and export_records (the
\* source writes the five column names in Japanese: start time, end time,
\* duration (s), operation, count).
Header == <<"kaishi-jikoku", "shuuryou-jikoku", "shoyou-jikan(byou)", "sousa", "kaisuu">>

\* A data row left in a file by an earlier run of the program.
OldRow == <<"0.0", "0.3", "0.3", "old", "">>

\* f"performance_export_{timestamp}.csv", timestamp being the local time to
\* the second.
AutoName(clock) == "performance_export_" \o ToString(clock \div 100) \o ".csv"

\* Every path the program can touch.
Paths == LogPaths \cup (ExportArgs \ {NoFilename}) \cup {AutoName(c) : c \in FirstClock..MaxClock}

\* A path that does not exist, and a file with the given rows.
Absent == [exists |-> FALSE, rows |-> <<>>]
File(rows) == [exists |-> TRUE, rows |-> rows]

VARIABLES
    now,        \* time.time(), in hundredths of a second
    fs,         \* the file system: path -> [exists, rows]
    timer,      \* the attributes of each PerformanceTimer object
    last,       \* the most recent call and what it returned: [op, s, value, list]
    completed,  \* per session, the records of its stop() calls that returned, in order
    clearedAt,  \* per session, Len(completed) at its latest clear_records
    exports,    \* the number of export_records calls so far
    below,      \* the rounded timestamps whose float lies below the decimal
    started,    \* per session, its latest start(): the clock it read, its
                \* arguments, and whether it replaced a pending measurement
    held,       \* the list the caller got from get_all_records and works on
    handles     \* the files the program holds open

vars == <<now, fs, timer, last, completed, clearedAt, exports, below, started,
          held, handles>>

\* ------------------------------------------------------------ pure helpers

\* _round_to_tenth: round(timestamp, 1).  On a count of hundredths the only
\* ties are the values ending in 5, and Python's round() sends an exact tie
\* to the even tenth.  The result is again a count of hundredths.
RoundToTenth(timestamp) ==
    LET down == timestamp - (timestamp % 10)
        rest == timestamp % 10
    IN  IF rest < 5 THEN down
        ELSE IF rest > 5 THEN down + 10
        ELSE IF (down \div 10) % 2 = 0 THEN down ELSE down + 10

\* The timestamps round(t, 1) can return that are not whole seconds.  The
\* float nearest to such a decimal x.d lies just above x.d or just below it,
\* depending on the size of x (a whole number of seconds is an exact float);
\* `below` holds the ones whose float lies below.
Inexact == {t \in 1..(MaxClock + 10) : t % 10 = 0 /\ t % 100 # 0}

\* int((timestamp % 1) * 10): the tenths digit as the code takes it.  For a
\* float just below x.d, (timestamp % 1) * 10 is just below d and int()
\* truncates it to d - 1.
TenthsDigit(timestamp) ==
    LET d == (timestamp % 100) \div 10
    IN  IF timestamp \in below THEN d - 1 ELSE d

\* _format_timestamp.  The calendar part strftime('%Y-%m-%d %H:%M:%S') of
\* datetime.fromtimestamp is written as the count of whole seconds.
FormatTimestamp(timestamp) ==
    ToString(timestamp \div 100) \o "." \o ToString(TenthsDigit(timestamp))

\* str(duration), duration a float with one decimal: "0.8", "1.0", "12.3".
StrDuration(duration) ==
    ToString(duration \div 100) \o "." \o ToString((duration % 100) \div 10)

\* self.operation or ""
StrOperation(operation) == IF operation = NoneStr \/ operation = "" THEN "" ELSE operation

\* Faulty variant of StrIteration: str(self.iteration), whatever it is.
StrIterationOfNone(iteration) ==
    IF iteration # None THEN ToString(iteration) ELSE "None"

\* str(self.iteration) if self.iteration is not None else ""
StrIteration(iteration) == IF iteration # None THEN ToString(iteration) ELSE ""

\* The five fields writer.writerow() is given for a record.
RowOf(record) ==
    <<record.start_time, record.end_time, record.duration, record.operation, record.iteration>>

\* Faulty variant of WriteFile: the file is opened with 'a', not 'w'.
WriteFileAppends(files, filename, rows) ==
    [files EXCEPT ![filename] = File(files[filename].rows \o rows)]

\* open(filename, 'w') ... writer.writerow(r) for each r of rows ... close.
WriteFile(files, filename, rows) == [files EXCEPT ![filename] = File(rows)]

\* open(filename, 'a') ... writer.writerow(row) ... close; 'a' creates a
\* file that does not exist.
AppendFile(files, filename, row) ==
    [files EXCEPT ![filename] = File(Append(files[filename].rows, row))]

\* Faulty variant of _create_csv_header: the file is created, no row written.
CreateCsvHeaderWritesNothing(files, filename) == WriteFile(files, filename, <<>>)

\* _create_csv_header
CreateCsvHeader(files, filename) == WriteFile(files, filename, <<Header>>)

\* _write_to_csv
WriteToCsv(files, filename, record) == AppendFile(files, filename, RowOf(record))

\* The rows export_records writes for `for record in self.records`.
RowsOf(records) == [i \in 1..Len(records) |-> RowOf(records[i])]

\* Total number of measurements completed so far.
RECURSIVE SumLen(_, _)
SumLen(f, S) ==
    IF S = {} THEN 0
    ELSE LET x == CHOOSE y \in S : TRUE IN Len(f[x]) + SumLen(f, S \ {x})

\* The attributes __init__ sets.
NewTimer(csv_filename) ==
    [constructed |-> TRUE, csv_filename |-> csv_filename, start_time |-> None,
     end_time |-> None, operation |-> NoneStr, iteration |-> None, records |-> <<>>]

\* An object that has not been constructed yet.
NoTimer == [NewTimer("") EXCEPT !.constructed = FALSE]

\* A start() call: the clock it read, its arguments, and whether a
\* measurement was pending when it was made.
StartCall(clock, operation, iteration, replaced) ==
    [clock |-> clock, operation |-> operation, iteration |-> iteration,
     replaced |-> replaced]

\* The list object a caller holds.  `same` tells whether it is the object
\* self.records itself; each item is a dict: `ref` is the index in
\* self.records of the dict it is (0: a dict of the caller's own) and
\* `record` what the dict holds.
HeldList(same, items) == [same |-> same, items |-> items]

\* The caller holds no list: it has made another call since.
NoList == HeldList(FALSE, <<>>)

\* list.copy(): a new list of the same dict objects.
CopyOf(records) ==
    HeldList(FALSE, [i \in 1..Len(records) |-> [ref |-> i, record |-> records[i]]])

\* open(filename, mode): the program holds one more open file.
OpenFile(open_files, filename) == open_files \cup {filename}

\* Faulty variant of CloseFile: the file was opened without `with` and is
\* never closed.
CloseFileLeavesOpen(open_files, filename) == open_files

\* The end of a `with open(...)` block, left normally or by an exception:
\* the file is closed.
CloseFile(open_files, filename) == open_files \ {filename}

\* A call that returned: its method, its object, and its result, which is a
\* number or None (value) or, for get_all_records, a list (list).
Call(op, s, value, list) == [op |-> op, s |-> s, value |-> value, list |-> list]

\* ------------------------------------------------------------------- Init

\* What the log path can hold before the first session is constructed:
\* nothing, an empty file, or the log of an earlier run.
InitialLogs == {Absent, File(<<>>), File(<<Header, OldRow>>)}

Init ==
    /\ now = FirstClock
    /\ \E log \in InitialLogs :
          fs = [p \in Paths |-> IF p \in LogPaths THEN log ELSE Absent]
    /\ timer = [s \in Sessions |-> NoTimer]
    /\ last = Call("none", "", None, <<>>)
    /\ completed = [s \in Sessions |-> <<>>]
    /\ clearedAt = [s \in Sessions |-> 0]
    /\ exports = 0
    /\ below \in SUBSET Inexact
    /\ started = [s \in Sessions |-> StartCall(None, NoneStr, None, FALSE)]
    /\ held = NoList
    /\ handles = {}

\* ---------------------------------------------------------------- actions

\* Faulty variant of __init__: the header is written without the
\* os.path.exists test.
ConstructAlwaysWritesHeader(s, csv_filename) ==
    /\ ~timer[s].constructed
    /\ timer' = [timer EXCEPT ![s] = NewTimer(csv_filename)]
    /\ fs' = CreateCsvHeader(fs, csv_filename)
    /\ handles' = CloseFile(OpenFile(handles, csv_filename), csv_filename)
    /\ last' = Call("__init__", s, None, <<>>)
    /\ held' = NoList
    /\ UNCHANGED <<now, completed, clearedAt, exports, below, started>>

\* PerformanceTimer(csv_filename)
Construct(s, csv_filename) ==
    /\ ~timer[s].constructed
    /\ timer' = [timer EXCEPT ![s] = NewTimer(csv_filename)]
    /\ fs' = IF ~fs[csv_filename].exists THEN CreateCsvHeader(fs, csv_filename) ELSE fs
    /\ handles' = IF ~fs[csv_filename].exists
                  THEN CloseFile(OpenFile(handles, csv_filename), csv_filename)
                  ELSE handles
    /\ last' = Call("__init__", s, None, <<>>)
    /\ held' = NoList
    /\ UNCHANGED <<now, completed, clearedAt, exports, below, started>>

\* Faulty variant of start(): the clock reading is stored as read, not
\* rounded.
StartStoresRawClock(s, operation, iteration) ==
    /\ timer[s].constructed
    /\ timer' = [timer EXCEPT ![s].start_time = now,
                              ![s].iteration = iteration,
                              ![s].operation = operation,
                              ![s].end_time = None]
    /\ started' = [started EXCEPT
                      ![s] = StartCall(now, operation, iteration, timer[s].start_time # None)]
    /\ last' = Call("start", s, None, <<>>)
    /\ held' = NoList
    /\ UNCHANGED <<now, fs, completed, clearedAt, exports, below, handles>>

\* Faulty variant of start(): a start() while a measurement is pending is
\* ignored.
StartIgnoredWhileTiming(s, operation, iteration) ==
    /\ timer[s].constructed
    /\ timer' = IF timer[s].start_time # None THEN timer
                ELSE [timer EXCEPT ![s].start_time = RoundToTenth(now),
                                   ![s].iteration = iteration,
                                   ![s].operation = operation,
                                   ![s].end_time = None]
    /\ started' = [started EXCEPT
                      ![s] = StartCall(now, operation, iteration, timer[s].start_time # None)]
    /\ last' = Call("start", s, None, <<>>)
    /\ held' = NoList
    /\ UNCHANGED <<now, fs, completed, clearedAt, exports, below, handles>>

\* Faulty variant of start(): it writes the header row, as __init__ does.
StartWritesHeader(s, operation, iteration) ==
    /\ timer[s].constructed
    /\ timer' = [timer EXCEPT ![s].start_time = RoundToTenth(now),
                              ![s].iteration = iteration,
                              ![s].operation = operation,
                              ![s].end_time = None]
    /\ fs' = CreateCsvHeader(fs, timer[s].csv_filename)
    /\ handles' = CloseFile(OpenFile(handles, timer[s].csv_filename), timer[s].csv_filename)
    /\ started' = [started EXCEPT
                      ![s] = StartCall(now, operation, iteration, timer[s].start_time # None)]
    /\ last' = Call("start", s, None, <<>>)
    /\ held' = NoList
    /\ UNCHANGED <<now, completed, clearedAt, exports, below>>

\* start(operation, iteration)
Start(s, operation, iteration) ==
    /\ timer[s].constructed
    /\ timer' = [timer EXCEPT ![s].start_time = RoundToTenth(now),
                              ![s].iteration = iteration,
                              ![s].operation = operation,
                              ![s].end_time = None]
    /\ started' = [started EXCEPT
                      ![s] = StartCall(now, operation, iteration, timer[s].start_time # None)]
    /\ last' = Call("start", s, None, <<>>)
    /\ held' = NoList
    /\ UNCHANGED <<now, fs, completed, clearedAt, exports, below, handles>>

\* Faulty variant of the idle stop(): it returns 0.0, not None.
StopIdleReturnsZero(s) ==
    /\ timer[s].constructed
    /\ timer[s].start_time = None
    /\ last' = Call("stop", s, 0, <<>>)
    /\ held' = NoList
    /\ UNCHANGED <<now, fs, timer, completed, clearedAt, exports, below, started, handles>>

\* stop() when start() was not called: the warning, return None.
StopIdle(s) ==
    /\ timer[s].constructed
    /\ timer[s].start_time = None
    /\ last' = Call("stop", s, None, <<>>)
    /\ held' = NoList
    /\ UNCHANGED <<now, fs, timer, completed, clearedAt, exports, below, started, handles>>

\* The record stop() builds, given the two formatted timestamps.
Record(t, duration, formatted_start, formatted_end) ==
    [start_time |-> formatted_start,
     end_time   |-> formatted_end,
     duration   |-> StrDuration(duration),
     operation  |-> StrOperation(t.operation),
     iteration  |-> StrIteration(t.iteration)]

\* Faulty variant of stop(): the reset of the attributes is missing.
StopPendingKeepsPending(s) ==
    /\ timer[s].constructed
    /\ timer[s].start_time # None
    /\ SumLen(completed, Sessions) < MaxStops
    /\ LET end_time == RoundToTenth(now)
           duration == RoundToTenth(end_time - timer[s].start_time)
           record == Record(timer[s], duration, FormatTimestamp(timer[s].start_time),
                            FormatTimestamp(end_time))
       IN         /\ timer' = [timer EXCEPT ![s].records = Append(@, record),
                                            ![s].end_time = end_time]
                  /\ fs' = WriteToCsv(fs, timer[s].csv_filename, record)
                  /\ handles' = CloseFile(OpenFile(handles, timer[s].csv_filename),
                                          timer[s].csv_filename)
                  /\ completed' = [completed EXCEPT ![s] = Append(@, record)]
                  /\ last' = Call("stop", s, duration, <<>>)
    /\ held' = NoList
    /\ UNCHANGED <<now, clearedAt, exports, below, started>>

\* stop() with a measurement pending.
StopPending(s) ==
    /\ timer[s].constructed
    /\ timer[s].start_time # None
    /\ SumLen(completed, Sessions) < MaxStops
    /\ LET end_time == RoundToTenth(now)
           duration == RoundToTenth(end_time - timer[s].start_time)
           record == Record(timer[s], duration, FormatTimestamp(timer[s].start_time),
                            FormatTimestamp(end_time))
       IN         /\ timer' = [timer EXCEPT ![s].records = Append(@, record),
                                            ![s].start_time = None,
                                            ![s].end_time = None,
                                            ![s].operation = NoneStr,
                                            ![s].iteration = None]
                  /\ fs' = WriteToCsv(fs, timer[s].csv_filename, record)
                  /\ handles' = CloseFile(OpenFile(handles, timer[s].csv_filename),
                                          timer[s].csv_filename)
                  /\ completed' = [completed EXCEPT ![s] = Append(@, record)]
                  /\ last' = Call("stop", s, duration, <<>>)
    /\ held' = NoList
    /\ UNCHANGED <<now, clearedAt, exports, below, started>>

\* stop()
Stop(s) == StopIdle(s) \/ StopPending(s)

\* Faulty variant of get_all_records(): it returns self.records itself.
GetAllRecordsReturnsSelf(s) ==
    /\ timer[s].constructed
    /\ last' = Call("get_all_records", s, None, timer[s].records)
    /\ held' = HeldList(TRUE, CopyOf(timer[s].records).items)
    /\ UNCHANGED <<now, fs, timer, completed, clearedAt, exports, below, started, handles>>

\* Faulty variant of get_all_records(): the copy is newest first.
GetAllRecordsReversed(s) ==
    /\ timer[s].constructed
    /\ last' = Call("get_all_records", s, None,
                    [i \in 1..Len(timer[s].records) |->
                        timer[s].records[Len(timer[s].records) + 1 - i]])
    /\ held' = CopyOf(timer[s].records)
    /\ UNCHANGED <<now, fs, timer, completed, clearedAt, exports, below, started, handles>>

\* get_all_records(): self.records.copy()
GetAllRecords(s) ==
    /\ timer[s].constructed
    /\ last' = Call("get_all_records", s, None, timer[s].records)
    /\ held' = CopyOf(timer[s].records)
    /\ UNCHANGED <<now, fs, timer, completed, clearedAt, exports, below, started, handles>>

\* Faulty variant of clear_records(): the log is started anew as well.
ClearRecordsResetsLog(s) ==
    /\ timer[s].constructed
    /\ timer' = [timer EXCEPT ![s].records = <<>>]
    /\ fs' = CreateCsvHeader(fs, timer[s].csv_filename)
    /\ clearedAt' = [clearedAt EXCEPT ![s] = Len(completed[s])]
    /\ last' = Call("clear_records", s, None, <<>>)
    /\ held' = NoList
    /\ UNCHANGED <<now, completed, exports, below, started, handles>>

\* clear_records(): self.records.clear()
ClearRecords(s) ==
    /\ timer[s].constructed
    /\ timer' = [timer EXCEPT ![s].records = <<>>]
    /\ clearedAt' = [clearedAt EXCEPT ![s] = Len(completed[s])]
    /\ last' = Call("clear_records", s, None, <<>>)
    /\ held' = NoList
    /\ UNCHANGED <<now, fs, completed, exports, below, started, handles>>

\* The file export_records writes: the one given, or the generated name.
ExportTarget(filename) == IF filename = NoFilename THEN AutoName(now) ELSE filename

\* Faulty variant of export_records(): the history is emptied once written.
ExportRecordsDrainsHistory(s, filename) ==
    /\ timer[s].constructed
    /\ exports < MaxExports
    /\ exports' = exports + 1
    /\ fs' = WriteFile(fs, ExportTarget(filename), <<Header>> \o RowsOf(timer[s].records))
    /\ handles' = CloseFile(OpenFile(handles, ExportTarget(filename)), ExportTarget(filename))
    /\ held' = NoList
    /\ timer' = [timer EXCEPT ![s].records = <<>>]
    /\ last' = Call("export_records", s, None, <<>>)
    /\ UNCHANGED <<now, completed, clearedAt, below, started>>

\* export_records(filename)
ExportRecords(s, filename) ==
    /\ timer[s].constructed
    /\ exports < MaxExports
    /\ exports' = exports + 1
    /\ fs' = WriteFile(fs, ExportTarget(filename), <<Header>> \o RowsOf(timer[s].records))
    /\ handles' = CloseFile(OpenFile(handles, ExportTarget(filename)), ExportTarget(filename))
    /\ held' = NoList
    /\ last' = Call("export_records", s, None, <<>>)
    /\ UNCHANGED <<now, timer, completed, clearedAt, below, started>>

\* Time passes between two calls.
Tick ==
    /\ now < MaxClock
    /\ \E t \in (now + 1)..MaxClock : now' = t
    /\ UNCHANGED <<fs, timer, last, completed, clearedAt, exports, below, started,
                   held, handles>>

\* One session, every method, every argument.
Next ==
    \/ \E s \in Callers, csv_filename \in LogPaths : Construct(s, csv_filename)
    \/ \E s \in Callers, a \in StartArgs : Start(s, a[1], a[2])
    \/ \E s \in Callers : Stop(s)
    \/ \E s \in Callers : GetAllRecords(s)
    \/ \E s \in Callers : ClearRecords(s)
    \/ \E s \in Callers, filename \in ExportArgs : ExportRecords(s, filename)
    \/ Tick

Spec == Init /\ [][Next]_vars

\* The arguments each session gives start() when several share a log.
SharedStartArgs ==
    [s \in Sessions |-> IF s \in Callers THEN <<"load", None>> ELSE <<"proc", 1>>]

\* Several sessions constructed one after another on the same log path,
\* their measurements interleaved.
NextShared ==
    \/ \E s \in Sessions, csv_filename \in LogPaths : Construct(s, csv_filename)
    \/ \E s \in Sessions : Start(s, SharedStartArgs[s][1], SharedStartArgs[s][2])
    \/ \E s \in Sessions : Stop(s)
    \/ Tick

SpecShared == Init /\ [][NextShared]_vars

\* The arguments of start() in a run of numbered measurements: those of
\* StartArgs, no label at all, and the label "proc" with each later number.
IterationArgs ==
    StartArgs \cup {<<"", None>>} \cup {<<"proc", i>> : i \in 2..(MaxStops + 1)}

\* One session measuring numbered and unnumbered operations one after
\* another, within a tenth of a second.
NextIterations ==
    \/ \E s \in Callers, csv_filename \in LogPaths : Construct(s, csv_filename)
    \/ \E s \in Callers, a \in IterationArgs : Start(s, a[1], a[2])
    \/ \E s \in Callers : Stop(s)

SpecIterations == Init /\ [][NextIterations]_vars

\* ---------------------------------------------------------- a new log

\* The log path does not exist when the session is constructed.
InitFresh ==
    /\ Init
    /\ \A p \in LogPaths : ~fs[p].exists

\* One session, every method, no export given the log path.
NextFresh ==
    \/ \E s \in Callers, csv_filename \in LogPaths : Construct(s, csv_filename)
    \/ \E s \in Callers, a \in StartArgs : Start(s, a[1], a[2])
    \/ \E s \in Callers : Stop(s)
    \/ \E s \in Callers : GetAllRecords(s)
    \/ \E s \in Callers : ClearRecords(s)
    \/ \E s \in Callers, filename \in ExportArgs \ LogPaths : ExportRecords(s, filename)
    \/ Tick

SpecFresh == InitFresh /\ [][NextFresh]_vars

\* ------------------------------------------------- file operations fail

\* Where a file operation fails: in open(), or in a write after it.
FaultPoints == {"open", "write"}

\* The open files once a `with open(filename, ...)` block was left by an
\* exception: open() raising opened nothing, a write raising leaves the
\* block and the file is closed.
AfterFault(open_files, filename, at) ==
    IF at = "open" THEN open_files ELSE CloseFile(OpenFile(open_files, filename), filename)

\* The files once writing `rows` with mode 'w' failed: open() raising changes
\* nothing, a write raising leaves the file with the first `kept` rows.
WriteFileFails(files, filename, rows, at, kept) ==
    IF at = "open" THEN files ELSE WriteFile(files, filename, SubSeq(rows, 1, kept))

\* PerformanceTimer(csv_filename) raising in _create_csv_header: the caller
\* gets no object.
ConstructFails(s, csv_filename, at) ==
    /\ ~timer[s].constructed
    /\ ~fs[csv_filename].exists
    /\ fs' = WriteFileFails(fs, csv_filename, <<Header>>, at, 0)
    /\ handles' = AfterFault(handles, csv_filename, at)
    /\ last' = Call("__init__", s, Raised, <<>>)
    /\ held' = NoList
    /\ UNCHANGED <<now, timer, completed, clearedAt, exports, below, started>>

\* Faulty variant of the failing stop(): the row is written before the
\* record is appended to the history.
StopFailsBeforeAppend(s, at) ==
    /\ timer[s].constructed
    /\ timer[s].start_time # None
    /\ Len(timer[s].records) - (Len(completed[s]) - clearedAt[s]) < MaxFaults
    /\ timer' = [timer EXCEPT ![s].end_time = RoundToTenth(now)]
    /\ fs' = IF at = "open" THEN fs
             ELSE [fs EXCEPT ![timer[s].csv_filename] = File(@.rows)]
    /\ handles' = AfterFault(handles, timer[s].csv_filename, at)
    /\ last' = Call("stop", s, Raised, <<>>)
    /\ held' = NoList
    /\ UNCHANGED <<now, completed, clearedAt, exports, below, started>>

\* stop() with a measurement pending, _write_to_csv raising: the record is
\* in self.records already, the statements after the write are not run.  A
\* write raising after open(.., 'a') has created the file if it was absent
\* and added no row.
StopFails(s, at) ==
    /\ timer[s].constructed
    /\ timer[s].start_time # None
    /\ Len(timer[s].records) - (Len(completed[s]) - clearedAt[s]) < MaxFaults
    /\ LET end_time == RoundToTenth(now)
           duration == RoundToTenth(end_time - timer[s].start_time)
           record == Record(timer[s], duration, FormatTimestamp(timer[s].start_time),
                            FormatTimestamp(end_time))
       IN  timer' = [timer EXCEPT ![s].end_time = end_time,
                                  ![s].records = Append(@, record)]
    /\ fs' = IF at = "open" THEN fs
             ELSE [fs EXCEPT ![timer[s].csv_filename] = File(@.rows)]
    /\ handles' = AfterFault(handles, timer[s].csv_filename, at)
    /\ last' = Call("stop", s, Raised, <<>>)
    /\ held' = NoList
    /\ UNCHANGED <<now, completed, clearedAt, exports, below, started>>

\* export_records(filename) raising: the destination, opened with 'w', is
\* left with the rows written before the failure.
ExportFails(s, filename, at, kept) ==
    /\ timer[s].constructed
    /\ exports < MaxExports
    /\ exports' = exports + 1
    /\ kept \in 0..Len(timer[s].records)
    /\ fs' = WriteFileFails(fs, ExportTarget(filename),
                            <<Header>> \o RowsOf(timer[s].records), at, kept)
    /\ handles' = AfterFault(handles, ExportTarget(filename), at)
    /\ last' = Call("export_records", s, Raised, <<>>)
    /\ held' = NoList
    /\ UNCHANGED <<now, timer, completed, clearedAt, below, started>>

\* One session on a file system whose operations can fail.
NextFaulty ==
    \/ \E s \in Callers, csv_filename \in LogPaths : Construct(s, csv_filename)
    \/ \E s \in Callers, csv_filename \in LogPaths, at \in FaultPoints :
          ConstructFails(s, csv_filename, at)
    \/ \E s \in Callers : Start(s, SharedStartArgs[s][1], SharedStartArgs[s][2])
    \/ \E s \in Callers : Stop(s)
    \/ \E s \in Callers, at \in FaultPoints : StopFails(s, at)
    \/ \E s \in Callers : ExportRecords(s, NoFilename)
    \/ \E s \in Callers, at \in FaultPoints, kept \in 0..(MaxStops + MaxFaults) :
          ExportFails(s, NoFilename, at, kept)
    \/ Tick

SpecFaulty == Init /\ [][NextFaulty]_vars

\* -------------------------------------------------- rendering on its own

\* Any raw clock reading up to MaxRaw; the float of its rounded value lies
\* below the decimal or not.
InitFormat ==
    /\ now \in 0..MaxRaw
    /\ below \in {{}, {RoundToTenth(now)} \ {t \in 0..(MaxRaw + 10) : t % 100 = 0}}
    /\ fs = [p \in Paths |-> Absent]
    /\ timer = [s \in Sessions |-> NoTimer]
    /\ last = Call("none", "", None, <<>>)
    /\ completed = [s \in Sessions |-> <<>>]
    /\ clearedAt = [s \in Sessions |-> 0]
    /\ exports = 0
    /\ started = [s \in Sessions |-> StartCall(None, NoneStr, None, FALSE)]
    /\ held = NoList
    /\ handles = {}

\* self._format_timestamp(self._round_to_tenth(time.time())), as start() and
\* stop() render a clock reading: the call returns the rendered string.
Render ==
    /\ last.op = "none"
    /\ last' = Call("_format_timestamp", "", RoundToTenth(now),
                    <<FormatTimestamp(RoundToTenth(now))>>)
    /\ UNCHANGED <<now, fs, timer, completed, clearedAt, exports, below, started,
                   held, handles>>

NextFormat == Render

SpecFormat == InitFormat /\ [][NextFormat]_vars

\* ------------------------------------------------ the caller and its list

\* A dict the caller makes itself and puts into the list it was given.
OwnRecord ==
    [start_time |-> "0.0", end_time |-> "0.3", duration |-> "0.3",
     operation |-> "own", iteration |-> ""]

\* The value a caller stores under 'operation' in a dict it was given.
Edited == "edited"

\* self.records once the caller has made `items` of the list it holds: the
\* list itself when the two are one object; otherwise the same dicts as
\* before, each holding what the caller's reference to it (if any) holds.
RecordsSeenThrough(list, items, records) ==
    IF list.same
    THEN [i \in 1..Len(items) |-> items[i].record]
    ELSE [k \in 1..Len(records) |->
             IF \E i \in 1..Len(items) : items[i].ref = k
             THEN items[CHOOSE i \in 1..Len(items) : items[i].ref = k].record
             ELSE records[k]]

\* The caller changes the list get_all_records() of session s returned, or a
\* dict in it, before it makes its next call.
CallerChanges(s, items) ==
    /\ last.op = "get_all_records" /\ last.s = s
    /\ items # held.items
    /\ held' = [held EXCEPT !.items = items]
    /\ timer' = [timer EXCEPT ![s].records = RecordsSeenThrough(held, items, @)]
    /\ UNCHANGED <<now, fs, last, completed, clearedAt, exports, below, started, handles>>

\* records.append(own), with at most MaxOwn dicts of the caller in the list.
ListAppend(s) ==
    /\ Cardinality({i \in 1..Len(held.items) : held.items[i].ref = 0}) < MaxOwn
    /\ CallerChanges(s, Append(held.items, [ref |-> 0, record |-> OwnRecord]))

\* del records[i]
ListRemove(s, i) ==
    /\ i \in 1..Len(held.items)
    /\ CallerChanges(s, [j \in 1..(Len(held.items) - 1) |->
                            IF j < i THEN held.items[j] ELSE held.items[j + 1]])

\* records.reverse()
ListReverse(s) ==
    /\ Len(held.items) > 1
    /\ CallerChanges(s, [j \in 1..Len(held.items) |-> held.items[Len(held.items) + 1 - j]])

\* records.clear()
ListClear(s) ==
    /\ Len(held.items) > 0
    /\ CallerChanges(s, <<>>)

\* records[i]['operation'] = Edited
RecordEdit(s, i) ==
    /\ i \in 1..Len(held.items)
    /\ CallerChanges(s, [held.items EXCEPT ![i].record.operation = Edited])

\* One session and a caller that works on the lists it is given; the calls
\* follow one another within a tenth of a second, the measurements differ by
\* their labels.
NextCaller ==
    \/ \E s \in Callers, csv_filename \in LogPaths : Construct(s, csv_filename)
    \/ \E s \in Callers, a \in StartArgs : Start(s, a[1], a[2])
    \/ \E s \in Callers : Stop(s)
    \/ \E s \in Callers : GetAllRecords(s)
    \/ \E s \in Callers : ExportRecords(s, NoFilename)
    \/ \E s \in Callers : ListAppend(s)
    \/ \E s \in Callers, i \in 1..MaxStops : ListRemove(s, i)
    \/ \E s \in Callers : ListReverse(s)
    \/ \E s \in Callers : ListClear(s)

SpecCaller == Init /\ [][NextCaller]_vars

\* The same, the caller also writing into the dicts of the lists.
NextEditor ==
    \/ NextCaller
    \/ \E s \in Callers, i \in 1..MaxStops : RecordEdit(s, i)

SpecEditor == Init /\ [][NextEditor]_vars

\* ----------------------------------------------------------------- claims

\* A session with no measurement pending, and one with a measurement pending.
Idle(s) == timer[s].constructed /\ timer[s].start_time = None
Timing(s) == timer[s].constructed /\ timer[s].start_time # None

\* The last element of a non-empty sequence.
Last(seq) == seq[Len(seq)]

\* seq is an initial part of longer.
IsPrefix(seq, longer) ==
    /\ Len(seq) <= Len(longer)
    /\ \A i \in 1..Len(seq) : seq[i] = longer[i]

\* C1: a stop() with no measurement pending returns None and changes neither
\* the history, nor any file, nor the pending slot (nor any other attribute).
IdleStopReturnsNoneAndChangesNothing ==
    [][\A s \in Sessions :
          (Idle(s) /\ Stop(s)) =>
              /\ last'.op = "stop" /\ last'.value = None
              /\ timer' = timer
              /\ fs' = fs
              /\ completed' = completed]_vars

\* C1 witness: a session that has completed a measurement is stopped again
\* and gets None.
IdleStopAfterMatchedStop ==
    \E s \in Sessions :
        /\ last = Call("stop", s, None, <<>>)
        /\ timer[s].records # <<>>
        /\ Idle(s)

\* C2: a stop() with a measurement pending appends one record to the history
\* and one data row, that record's, to the log, leaves the session idle and
\* returns the record's duration as a number; the stop() after it gets None.
PendingStopRecordsOnce ==
    [][\A s \in Sessions :
          /\ (Timing(s) /\ Stop(s)) =>
                LET log == timer[s].csv_filename
                    new == Last(timer'[s].records)
                IN  /\ Len(timer'[s].records) = Len(timer[s].records) + 1
                    /\ IsPrefix(timer[s].records, timer'[s].records)
                    /\ fs'[log].rows = Append(fs[log].rows, RowOf(new))
                    /\ RowOf(new) # Header
                    /\ \A p \in Paths \ {log} : fs'[p] = fs[p]
                    /\ Idle(s)'
                    /\ last'.op = "stop" /\ last'.value # None
                    /\ new.duration = StrDuration(last'.value)
          /\ (last.op = "stop" /\ last.s = s /\ last.value # None /\ Stop(s)) =>
                last'.value = None]_vars

\* C2 witness: a stop() has returned a duration, its record is the last of
\* the history and its row the last of the log.
StopReturnedDuration ==
    \E s \in Sessions :
        /\ last.op = "stop" /\ last.s = s /\ last.value # None
        /\ Idle(s)
        /\ timer[s].records # <<>>
        /\ Last(fs[timer[s].csv_filename].rows) = RowOf(Last(timer[s].records))

\* C3: with start() at clock T0 and the matching stop() at T1 >= T0, the
\* duration returned and recorded is round(T1) - round(T0), the difference of
\* the rounded readings, and is not negative.
DurationIsDifferenceOfRoundedReadings ==
    [][\A s \in Sessions :
          (Timing(s) /\ Stop(s) /\ now >= started[s].clock) =>
              LET d == RoundToTenth(now) - RoundToTenth(started[s].clock)
              IN  /\ last'.value = d
                  /\ Last(timer'[s].records).duration = StrDuration(d)
                  /\ d >= 0]_vars

\* C3 witness: a measurement whose duration differs from the rounded
\* difference of the raw readings (readings 0.04 and 0.06: 0.1, not 0.0).
RoundedReadingsDifferFromRoundedDifference ==
    \E s \in Sessions :
        /\ last.op = "stop" /\ last.s = s /\ last.value # None
        /\ last.value = RoundToTenth(now) - RoundToTenth(started[s].clock)
        /\ last.value # RoundToTenth(now - started[s].clock)

\* C4: a session constructed on a log path that does not exist writes one
\* header row and nothing else; one constructed on a path that exists writes
\* nothing; from then on the rows of the file are only ever added to, one
\* data row per completed stop() of whichever session, never a header.
HeaderOnceThenRowsOnlyAppended ==
    [][\A p \in LogPaths :
          /\ (~fs[p].exists /\ fs'[p].exists) =>
                /\ fs'[p].rows = <<Header>>
                /\ \E s \in Sessions : Construct(s, p)
          /\ fs[p].exists =>
                /\ fs'[p].exists
                /\ IsPrefix(fs[p].rows, fs'[p].rows)
                /\ \A i \in (Len(fs[p].rows) + 1)..Len(fs'[p].rows) : fs'[p].rows[i] # Header
          /\ \A s \in Sessions :
                /\ (Construct(s, p) /\ fs[p].exists) => fs' = fs
                /\ (Timing(s) /\ timer[s].csv_filename = p /\ Stop(s)) =>
                      fs'[p].rows = Append(fs[p].rows, RowOf(Last(timer'[s].records)))
                /\ (Idle(s) /\ Stop(s)) => fs' = fs]_vars

\* C4 witness: two sessions on a log the first of them created; the second
\* to be constructed completes a measurement before the first one does.
TwoSessionsShareOneHeader ==
    \E s, t \in Sessions :
        /\ s # t
        /\ timer[s].constructed /\ timer[t].constructed
        /\ timer[s].csv_filename = timer[t].csv_filename
        /\ Len(completed[s]) = 1 /\ Len(completed[t]) = 1
        /\ fs[timer[s].csv_filename].rows =
              <<Header, RowOf(completed[t][1]), RowOf(completed[s][1])>>
        /\ last.op = "stop" /\ last.s = s

\* The first row is the header and no other row is.
HeaderFirstOnly(rows) ==
    /\ rows # <<>>
    /\ rows[1] = Header
    /\ \A i \in 2..Len(rows) : rows[i] # Header

\* C5 as claimed: whenever the log file of a session exists, its first row is
\* the header and no other row is, whatever the file held before.
LogAlwaysBeginsWithTheOnlyHeader ==
    \A s \in Sessions :
        (timer[s].constructed /\ fs[timer[s].csv_filename].exists) =>
            HeaderFirstOnly(fs[timer[s].csv_filename].rows)

\* C5 as amended: a log path that is absent, or holds a file whose first row
\* is the header and no other row is, holds such a file after every call
\* once a session is constructed on it.
LogKeepsTheOnlyHeader ==
    [][\A p \in LogPaths :
          (/\ ~fs[p].exists \/ HeaderFirstOnly(fs[p].rows)
           /\ \E s \in Sessions : timer'[s].constructed /\ timer'[s].csv_filename = p) =>
              /\ fs'[p].exists
              /\ HeaderFirstOnly(fs'[p].rows)]_vars

\* C5 witness: a log the session created, two rows appended to it, the
\* history cleared and then exported.
CreatedLogHoldsHeaderAndRows ==
    \E s \in Sessions :
        /\ timer[s].constructed
        /\ Len(completed[s]) = 2
        /\ fs[timer[s].csv_filename].rows =
              <<Header, RowOf(completed[s][1]), RowOf(completed[s][2])>>
        /\ clearedAt[s] > 0
        /\ last.op = "export_records"

\* C6: as long as the history was not cleared, get_all_records() returns the
\* records of the completed measurements, as many as there were and in the
\* order their stop() calls completed.
GetAllRecordsReturnsStopsInOrder ==
    [][\A s \in Sessions :
          (GetAllRecords(s) /\ clearedAt[s] = 0) =>
              /\ last'.op = "get_all_records"
              /\ last'.list = completed[s]]_vars

\* C6 witness: two different measurements, returned in the order made.
TwoRecordsReturnedInOrder ==
    \E s \in Sessions :
        /\ last.op = "get_all_records" /\ last.s = s
        /\ Len(last.list) = 2
        /\ last.list[1] # last.list[2]
        /\ last.list = completed[s]

\* C7: a call other than clear_records() leaves the history as it was or
\* with records added at its end.
HistoryAppendOnlyBetweenClears ==
    [][\A s \in Sessions :
          ClearRecords(s) \/ IsPrefix(timer[s].records, timer'[s].records)]_vars

\* C7 witness: an export made with two records in the history, and both are
\* still there.
HistoryKeptAcrossExport ==
    \E s \in Sessions :
        /\ last.op = "export_records" /\ last.s = s
        /\ timer[s].records = completed[s]
        /\ Len(completed[s]) = 2

\* C8: start() can be called whether or not a measurement is pending and
\* leaves the session timing, with the pending slot holding this call's
\* reading and arguments and the history and files untouched; the stop() that
\* follows makes one record and one row, with the start time, label and
\* iteration of the latest start().
RestartReplacesPending ==
    /\ [](\A s \in Sessions : timer[s].constructed =>
              \A a \in StartArgs : ENABLED Start(s, a[1], a[2]))
    /\ [][\A s \in Sessions :
             /\ \A a \in StartArgs :
                   Start(s, a[1], a[2]) =>
                       /\ Timing(s)'
                       /\ timer'[s].start_time = RoundToTenth(now)
                       /\ timer'[s].operation = a[1]
                       /\ timer'[s].iteration = a[2]
                       /\ timer'[s].records = timer[s].records
                       /\ fs' = fs
             /\ (Timing(s) /\ Stop(s)) =>
                   LET new == Last(timer'[s].records)
                       log == timer[s].csv_filename
                   IN  /\ Len(timer'[s].records) = Len(timer[s].records) + 1
                       /\ Len(fs'[log].rows) = Len(fs[log].rows) + 1
                       /\ new.start_time = FormatTimestamp(RoundToTenth(started[s].clock))
                       /\ new.operation = started[s].operation
                       /\ new.iteration = StrIteration(started[s].iteration)]_vars

\* C8 witness: a start() that replaced a pending measurement was stopped,
\* and the session's only record carries its label.
RestartedMeasurementRecordedOnce ==
    \E s \in Sessions :
        /\ last.op = "stop" /\ last.s = s /\ last.value # None
        /\ started[s].replaced
        /\ Len(completed[s]) = 1
        /\ timer[s].records = completed[s]
        /\ completed[s][1].operation = started[s].operation

\* C9 as claimed: export_records() changes neither the history nor the log
\* file of the session, whatever destination it is given.
ExportLeavesHistoryAndLog ==
    [][\A s \in Sessions, filename \in ExportArgs :
          ExportRecords(s, filename) =>
              /\ timer' = timer
              /\ fs'[timer[s].csv_filename] = fs[timer[s].csv_filename]]_vars

\* C10: after export_records() its destination holds the header and then one
\* row per record of the history, in order, whatever it held before; a second
\* export right after the first writes what the first one wrote.
ExportWritesHeaderThenHistory ==
    [][\A s \in Sessions, filename \in ExportArgs :
          ExportRecords(s, filename) =>
              LET written == fs'[ExportTarget(filename)]
              IN  /\ written.exists
                  /\ Len(written.rows) = 1 + Len(timer[s].records)
                  /\ written.rows[1] = Header
                  /\ \A i \in 1..Len(timer[s].records) :
                        written.rows[i + 1] = RowOf(timer[s].records[i])
                  /\ (last.op = "export_records" /\ last.s = s) =>
                        \E p \in Paths : fs[p] = written]_vars

\* C10 witness: the log, which held the header and two rows, was given as
\* the destination after one of the two records had been cleared.
ExportTruncatedItsDestination ==
    \E s \in Sessions :
        /\ last.op = "export_records" /\ last.s = s
        /\ Len(completed[s]) = 2 /\ clearedAt[s] = 1
        /\ fs[timer[s].csv_filename].rows = <<Header, RowOf(completed[s][2])>>
        /\ timer[s].records = <<completed[s][2]>>

\* Whether every row of `rows` is one of the rows of `file_rows`.
HoldsEveryRow(file_rows, rows) ==
    \A i \in 1..Len(rows) : \E j \in 1..Len(file_rows) : file_rows[j] = rows[i]

\* C11 as claimed: clear_records() empties the history and leaves every file
\* as it was; an export made after it, whatever its destination, writes a
\* file that holds the header row only, and the log of the session still
\* holds the row of every measurement stopped before.
ClearEmptiesHistoryAndKeepsLogRows ==
    [][\A s \in Sessions :
          /\ ClearRecords(s) =>
                /\ timer'[s].records = <<>>
                /\ fs' = fs
          /\ \A filename \in ExportArgs :
                (last.op = "clear_records" /\ last.s = s /\ ExportRecords(s, filename)) =>
                    /\ fs'[ExportTarget(filename)].rows = <<Header>>
                    /\ HoldsEveryRow(fs'[timer[s].csv_filename].rows,
                                     RowsOf(completed[s]))]_vars

\* A change of the list itself: an append, a removal, a reversal, a clear.
ListChange(s) ==
    \/ ListAppend(s)
    \/ \E i \in 1..MaxStops : ListRemove(s, i)
    \/ ListReverse(s)
    \/ ListClear(s)

\* C12: appending to, removing from, reordering or clearing the list
\* get_all_records() returned changes the caller's list and leaves the
\* history and the files as they were; the next get_all_records() returns
\* the records the changed list was made from, in their order, and the next
\* export writes a row for each of them.
ListChangeLeavesHistory ==
    [][\A s \in Sessions :
          /\ ListChange(s) =>
                /\ held' # held
                /\ timer' = timer
                /\ fs' = fs
          /\ (last.op = "get_all_records" /\ last.s = s /\ held # CopyOf(last.list)) =>
                /\ GetAllRecords(s) => last'.list = last.list
                /\ ExportRecords(s, NoFilename) =>
                      fs'[ExportTarget(NoFilename)].rows = <<Header>> \o RowsOf(last.list)]_vars

\* C12 witness: the caller has cleared the list it was given, and the
\* history still holds the two records that were returned.
ClearedListOfTwoRecords ==
    \E s \in Sessions :
        /\ last.op = "get_all_records" /\ last.s = s
        /\ Len(last.list) = 2
        /\ held.items = <<>>
        /\ timer[s].records = last.list

\* C13 as claimed: a record of the history keeps its start time, end time,
\* duration, label and iteration for as long as it is in the history,
\* whatever the session is called to do and whatever the caller does with
\* the lists and records get_all_records() hands out.
RecordsNeverChange ==
    [][\A s \in Sessions :
          \A i \in 1..Len(timer[s].records) :
              i <= Len(timer'[s].records) =>
                  timer'[s].records[i] = timer[s].records[i]]_vars

StartChangesOnlyThePendingSlot ==
    [][\A s \in Sessions, a \in StartArgs :
          Start(s, a[1], a[2]) =>
              /\ fs' = fs
              /\ handles' = handles
              /\ timer'[s].records = timer[s].records
              /\ timer'[s].csv_filename = timer[s].csv_filename
              /\ \A t \in Sessions \ {s} : timer'[t] = timer[t]
              /\ completed' = completed
              /\ <<timer'[s].start_time, timer'[s].operation, timer'[s].iteration>> #
                     <<None, NoneStr, None>>]_vars

\* C15 witness: start() was called with a measurement pending, a record in
\* the history, a row in the log and an export file on disk.
StartedOverPendingWithFilesOnDisk ==
    \E s \in Sessions :
        /\ last.op = "start" /\ last.s = s
        /\ started[s].replaced
        /\ Len(timer[s].records) > 0
        /\ Len(fs[timer[s].csv_filename].rows) > 1
        /\ \E p \in Paths \ LogPaths : fs[p].exists

\* C16 as claimed: a raw timestamp is rendered as the whole seconds of its
\* value rounded to the nearest tenth, a dot, and the one tenths digit (0..9)
\* of that same rounded value; s + 0.96 is rendered as second s + 1 with the
\* digit 0.
RenderedIsRoundedSecondAndTenth ==
    last.op = "_format_timestamp" =>
        LET rounded == RoundToTenth(now)
        IN  /\ last.value = rounded
            /\ last.list = <<ToString(rounded \div 100) \o "." \o
                               ToString((rounded % 100) \div 10)>>

\* C17: after every call of the constructor, stop() and export_records(),
\* whether it returned or raised while opening or writing its file, the
\* program holds no file open; and when stop() has returned a duration, the
\* last row of the log is the row of the record it made.
NoFileOpenBetweenCalls ==
    /\ handles = {}
    /\ \A s \in Sessions :
          (last.op = "stop" /\ last.s = s /\ last.value \notin {None, Raised}) =>
              /\ fs[timer[s].csv_filename].exists
              /\ fs[timer[s].csv_filename].rows # <<>>
              /\ Last(fs[timer[s].csv_filename].rows) = RowOf(Last(timer[s].records))

\* C17 witness: the first export of a session with one record raised while
\* writing, after the header row; the file is on disk and not open.
ExportRaisedAfterTheHeader ==
    \E s \in Sessions :
        /\ last.op = "export_records" /\ last.s = s /\ last.value = Raised
        /\ exports = 1
        /\ Len(timer[s].records) = 1
        /\ fs[AutoName(now)] = File(<<Header>>)
        /\ handles = {}

\* C18: for one session constructed on a log path that did not exist, no
\* file operation failing and no export given the log path, in every state
\* the log holds the header and then the rows of the records of all stop()
\* calls that returned a duration, in the order of the calls, and the
\* history is the records of those made since the latest clear_records().
LogIsEveryStopAndHistoryItsSuffix ==
    \A s \in Sessions :
        timer[s].constructed =>
            /\ fs[timer[s].csv_filename].rows = <<Header>> \o RowsOf(completed[s])
            /\ clearedAt[s] <= Len(completed[s])
            /\ timer[s].records =
                   SubSeq(completed[s], clearedAt[s] + 1, Len(completed[s]))

\* C18 witness: two measurements stopped, the history cleared between them:
\* the log holds both rows, the history the second record.
TwoRowsLoggedOneRecordKept ==
    \E s \in Sessions :
        /\ Len(completed[s]) = 2 /\ clearedAt[s] = 1
        /\ Len(fs[timer[s].csv_filename].rows) = 3
        /\ timer[s].records = <<completed[s][2]>>
        /\ \E p \in Paths \ LogPaths : fs[p].exists

\* C19: a stop() whose append to the log fails raises out of stop(): it
\* returns no duration, the record it built is already the last of the
\* history, the log got no row, and the measurement is still pending with
\* its start time, label and iteration; the next stop(), no start() having
\* come between, appends one more record with that start time and label.
FailedStopKeepsRecordAndPending ==
    [][\A s \in Sessions :
          /\ \A at \in FaultPoints :
                StopFails(s, at) =>
                    /\ last'.op = "stop" /\ last'.value = Raised
                    /\ Len(timer'[s].records) = Len(timer[s].records) + 1
                    /\ Last(timer'[s].records).start_time =
                           FormatTimestamp(timer[s].start_time)
                    /\ Last(timer'[s].records).operation = started[s].operation
                    /\ fs'[timer[s].csv_filename].rows = fs[timer[s].csv_filename].rows
                    /\ Timing(s)'
                    /\ timer'[s].start_time = timer[s].start_time
                    /\ timer'[s].operation = timer[s].operation
                    /\ timer'[s].iteration = timer[s].iteration
          /\ (/\ last.op = "stop" /\ last.s = s /\ last.value = Raised
              /\ (Stop(s) \/ \E at \in FaultPoints : StopFails(s, at))) =>
                    /\ Len(timer'[s].records) = Len(timer[s].records) + 1
                    /\ Last(timer'[s].records).start_time = Last(timer[s].records).start_time
                    /\ Last(timer'[s].records).operation = Last(timer[s].records).operation]_vars

\* C19 witness: the only start() of a session was followed by a stop() that
\* raised and then, later, by one that returned: two records with one start
\* time and label and two end times, one row in the log for them.
SecondStopRecordedTheSameStart ==
    \E s \in Sessions :
        /\ last.op = "stop" /\ last.s = s /\ last.value \notin {None, Raised}
        /\ ~started[s].replaced
        /\ Len(timer[s].records) = 2 /\ Len(completed[s]) = 1
        /\ timer[s].records[1].start_time = timer[s].records[2].start_time
        /\ timer[s].records[1].operation = timer[s].records[2].operation
        /\ timer[s].records[1].end_time # timer[s].records[2].end_time
        /\ Idle(s)
=============================================================================
